---------------------------- MODULE Spec2Model ----------------------------
(***************************************************************************)
(* A model of scripts/check-updates.py, the fleet-update detector: it      *)
(* scans docker-compose manifests, asks the registries for newer image     *)
(* tags, rewrites the manifests in place and writes a summary for the CI   *)
(* pipeline.                                                               *)
(*                                                                         *)
(* A Python string is a sequence of one-character strings; a character     *)
(* outside printable ASCII is written by its code point, as in "U+0001".   *)
(* Python's None is the value None below.                                  *)
(*                                                                         *)
(* Five specifications share the module:                                   *)
(*   Spec          one run of main() over the manifests on disk            *)
(*   SpecResolve   one call of get_latest_docker_tag                       *)
(*   SpecRate      the RateLimitManager under a passing clock              *)
(*   SpecClean     clean_version applied once and twice                    *)
(*   SpecSanitize  sanitize_for_github_env applied once and twice          *)
(***************************************************************************)
EXTENDS Integers, Sequences, FiniteSets, TLC

VARIABLES
    \* main(): the manifests found, the files on disk, the position in the run
    compose_files, disk, disk0, pc, file_idx, svc_idx,
    compose_data, updates, modified, all_updates,
    calls, rewritten, write_failed, env_file,
    \* RateLimitManager and the clock it reads
    now, last_request, last_wait,
    \* a pure function: its argument, its result, its result taken as argument
    arg, out1, out2, fpc

mainVars == <<compose_files, disk, disk0, pc, file_idx, svc_idx,
              compose_data, updates, modified, all_updates,
              calls, rewritten, write_failed, env_file>>
rateVars == <<now, last_request, last_wait>>
fnVars   == <<arg, out1, out2, fpc>>
vars     == <<mainVars, rateVars, fnVars>>

None == <<"None">>

---------------------------------------------------------------------------
(* Bounds of the model.                                                    *)

\* the most parts an input of clean_version is built from
MaxCleanParts == 3

\* the most parts an input of sanitize_for_github_env is built from
MaxSanitizeParts == 3

\* the most tags a registry lists in one response
MaxCandidates == 3

\* the most tags a registry lists in one response during a run of main()
MaxTags == 2

\* the most services of a manifest
MaxServices == 2

\* the clock when the run starts, in half seconds: far past every delay, as
\* time.time() is
ClockStart == 6

\* the clock at which the model stops
MaxClock == 13

\* the most time.sleep returns late, in half seconds
MaxOversleep == 1

---------------------------------------------------------------------------
(* Python's str operations, as the program uses them.                      *)

StartsWith(s, p) == Len(s) >= Len(p) /\ SubSeq(s, 1, Len(p)) = p

EndsWith(s, p) == Len(s) >= Len(p) /\ SubSeq(s, Len(s) - Len(p) + 1, Len(s)) = p

DropFirst(s, n) == SubSeq(s, n + 1, Len(s))

DropLast(s, n) == SubSeq(s, 1, Len(s) - n)

\* p in s
Contains(s, p) == \E k \in 0..(Len(s) - Len(p)) : SubSeq(s, k + 1, k + Len(p)) = p

\* the least k with s[k+1 .. k+Len(p)] = p; the caller knows there is one
FindFirst(s, p) ==
    CHOOSE k \in 0..(Len(s) - Len(p)) :
        /\ SubSeq(s, k + 1, k + Len(p)) = p
        /\ \A h \in 0..(k - 1) : SubSeq(s, h + 1, h + Len(p)) # p

\* s.replace(old, ""): every occurrence, left to right
RECURSIVE Remove(_, _)
Remove(s, old) ==
    IF ~Contains(s, old) THEN s
    ELSE LET k == FindFirst(s, old)
         IN  SubSeq(s, 1, k) \o Remove(DropFirst(s, k + Len(old)), old)

\* s.split(sep) for a one-character sep
RECURSIVE Split(_, _)
Split(s, sep) ==
    IF ~Contains(s, <<sep>>) THEN <<s>>
    ELSE LET k == FindFirst(s, <<sep>>)
         IN  <<SubSeq(s, 1, k)>> \o Split(DropFirst(s, k + 1), sep)

\* s.rsplit(sep, 1) for a one-character sep
RSplit1(s, sep) ==
    IF ~Contains(s, <<sep>>) THEN <<s>>
    ELSE LET k == CHOOSE h \in 1..Len(s) :
                      s[h] = sep /\ \A g \in (h + 1)..Len(s) : s[g] # sep
         IN  <<SubSeq(s, 1, k - 1), DropFirst(s, k)>>

Digits == {"0", "1", "2", "3", "4", "5", "6", "7", "8", "9"}

DigitVal(c) == CHOOSE d \in 0..9 : <<"0", "1", "2", "3", "4", "5", "6", "7", "8", "9">>[d + 1] = c

\* \d+ : a non-empty run of digits
IsNumber(s) == Len(s) > 0 /\ \A k \in 1..Len(s) : s[k] \in Digits

\* int(s) of a run of digits
RECURSIVE IntOf(_)
IntOf(s) == IF s = <<>> THEN 0 ELSE 10 * IntOf(DropLast(s, 1)) + DigitVal(s[Len(s)])

---------------------------------------------------------------------------
(* clean_version, lines 111-116.                                           *)

VersionPrefixes == <<<<"r","e","l","e","a","s","e","-">>, <<"v">>>>

VersionSuffixes == <<<<"-","a","l","p","i","n","e">>, <<"-","s","l","i","m">>>>

\* re.sub(r'^(release-|v)', '', ver): the alternatives are tried in order at
\* the start of the string, and one leading prefix is removed
StripLeadingPrefix(ver) ==
    IF StartsWith(ver, VersionPrefixes[1]) THEN DropFirst(ver, Len(VersionPrefixes[1]))
    ELSE IF StartsWith(ver, VersionPrefixes[2]) THEN DropFirst(ver, Len(VersionPrefixes[2]))
    ELSE ver

\* re.sub(r'(-alpine|-slim)$', '', ver): one trailing suffix is removed (the
\* strings of the model hold no newline, before which $ would also match)
StripTrailingSuffix(ver) ==
    IF EndsWith(ver, VersionSuffixes[1]) THEN DropLast(ver, Len(VersionSuffixes[1]))
    ELSE IF EndsWith(ver, VersionSuffixes[2]) THEN DropLast(ver, Len(VersionSuffixes[2]))
    ELSE ver

clean_version(ver) == StripTrailingSuffix(StripLeadingPrefix(ver))

---------------------------------------------------------------------------
(* sanitize_for_github_env, lines 178-197.                                 *)

\* [<>"`$\\]; the backquote is written by its code point
DangerousChars == {"<", ">", "\"", "U+0060", "$", "\\"}

\* [\r\n\t]
LineBreakChars == {"\r", "\n", "\t"}

\* \s of a str pattern, which is also what str.strip() removes
WhitespaceChars ==
    {" ", "\t", "\n", "\r", "\f", "U+000B", "U+001C", "U+001D", "U+001E", "U+001F",
     "U+0085", "U+00A0", "U+1680", "U+2000", "U+2001", "U+2002", "U+2003", "U+2004",
     "U+2005", "U+2006", "U+2007", "U+2008", "U+2009", "U+200A", "U+2028", "U+2029",
     "U+202F", "U+205F", "U+3000"}

\* \x20-\x7E, in code-point order
AsciiPrintable == <<" ","!","\"","#","$","%","&","'","(",")","*","+",",","-",".","/","0","1","2","3","4","5","6","7","8","9",":",";","<","=",">","?","@","A","B","C","D","E","F","G","H","I","J","K","L","M","N","O","P","Q","R","S","T","U","V","W","X","Y","Z","[","\\","]","^","_","U+0060","a","b","c","d","e","f","g","h","i","j","k","l","m","n","o","p","q","r","s","t","u","v","w","x","y","z","{","|","}","~">>

PrintableChars == {AsciiPrintable[k] : k \in 1..Len(AsciiPrintable)}

max_length == 200

\* re.sub(r'[...]', '', content)
RemoveChars(s, set) == LET keep(c) == c \notin set IN SelectSeq(s, keep)

\* re.sub(r'[\r\n\t]', ' ', content)
ReplaceChars(s, set, by) == [k \in 1..Len(s) |-> IF s[k] \in set THEN by ELSE s[k]]

\* re.sub(r'\s+', ' ', content): every maximal run of whitespace becomes one
\* space (its first character is replaced by a space, the others are dropped)
CollapseWhitespace(s) ==
    LET marked == [k \in 1..Len(s) |->
                      IF s[k] \notin WhitespaceChars THEN s[k]
                      ELSE IF k > 1 /\ s[k - 1] \in WhitespaceChars THEN "dropped"
                      ELSE " "]
        keep(c) == c # "dropped"
    IN  SelectSeq(marked, keep)

\* re.sub(r'[^\x20-\x7E]', '', content)
RemoveNonPrintable(s) == LET keep(c) == c \in PrintableChars IN SelectSeq(s, keep)

\* content[:max_length].rsplit(' ', 1)[0] + '...' when len(content) > max_length
Truncate(s) ==
    IF Len(s) > max_length
    THEN RSplit1(SubSeq(s, 1, max_length), " ")[1] \o <<".",".",".">>
    ELSE s

\* str.strip()
Strip(s) ==
    LET inner == {k \in 1..Len(s) : s[k] \notin WhitespaceChars}
    IN  IF inner = {} THEN <<>>
        ELSE SubSeq(s, CHOOSE k \in inner : \A h \in inner : k <= h,
                       CHOOSE k \in inner : \A h \in inner : k >= h)

sanitize_for_github_env(content) ==
    IF content = <<>> \/ content = None THEN <<>>
    ELSE Strip(Truncate(RemoveNonPrintable(CollapseWhitespace(
             ReplaceChars(RemoveChars(content, DangerousChars), LineBreakChars, " ")))))

---------------------------------------------------------------------------
(* The configuration tables, lines 16-99.                                  *)

\* A tag convention of VERSION_PATTERNS: ^ pre, lo to hi dot-separated groups
\* of digits (\d+; the first one \d{first} when first > 0), an optional
\* -alpine when alpine, $.
Pat(pre, lo, hi, first, alpine) ==
    [pre |-> pre, lo |-> lo, hi |-> hi, first |-> first, alpine |-> alpine]

\* image name -> GitHub repository, as pairs
REPO_MAPPINGS ==
    { <<<<"l","i","s","s","y","9","3","/","d","a","s","h","y">>, <<"l","i","s","s","y","9","3","/","d","a","s","h","y">>>>,
      <<<<"f","i","l","e","b","r","o","w","s","e","r","/","f","i","l","e","b","r","o","w","s","e","r">>, <<"f","i","l","e","b","r","o","w","s","e","r","/","f","i","l","e","b","r","o","w","s","e","r">>>>,
      <<<<"x","a","v","i","e","r","h","/","g","o","a","c","c","e","s","s","-","f","o","r","-","n","g","i","n","x","p","r","o","x","y","m","a","n","a","g","e","r">>, <<"x","a","v","i","e","r","-","h","e","r","n","a","n","d","e","z","/","g","o","a","c","c","e","s","s","-","f","o","r","-","n","g","i","n","x","p","r","o","x","y","m","a","n","a","g","e","r">>>>,
      <<<<"l","s","c","r",".","i","o","/","l","i","n","u","x","s","e","r","v","e","r","/","d","u","p","l","i","c","a","t","i">>, <<"l","i","n","u","x","s","e","r","v","e","r","/","d","o","c","k","e","r","-","d","u","p","l","i","c","a","t","i">>>>,
      <<<<"h","o","n","e","y","g","a","i","n","/","h","o","n","e","y","g","a","i","n">>, <<"h","o","n","e","y","g","a","i","n","/","h","o","n","e","y","g","a","i","n","-","d","o","c","k","e","r">>>>,
      <<<<"v","a","u","l","t","w","a","r","d","e","n","/","s","e","r","v","e","r">>, <<"d","a","n","i","-","g","a","r","c","i","a","/","v","a","u","l","t","w","a","r","d","e","n">>>>,
      <<<<"g","o","a","u","t","h","e","n","t","i","k","/","s","e","r","v","e","r">>, <<"g","o","a","u","t","h","e","n","t","i","k","/","s","e","r","v","e","r">>>>,
      <<<<"g","h","c","r",".","i","o","/","i","m","a","g","e","g","e","n","i","u","s","/","i","m","m","i","c","h">>, <<"i","m","a","g","e","g","e","n","i","u","s","/","d","o","c","k","e","r","-","i","m","m","i","c","h">>>>,
      <<<<"r","o","m","m","a","p","p","/","r","o","m","m">>, <<"r","o","m","m","a","p","p","/","r","o","m","m">>>>,
      <<<<"n","e","x","t","c","l","o","u","d">>, <<"n","e","x","t","c","l","o","u","d","/","s","e","r","v","e","r">>>>,
      <<<<"a","c","t","u","a","l","b","u","d","g","e","t","/","a","c","t","u","a","l","-","s","e","r","v","e","r">>, <<"a","c","t","u","a","l","b","u","d","g","e","t","/","a","c","t","u","a","l","-","s","e","r","v","e","r">>>>,
      <<<<"r","e","q","u","a","r","k","s","/","w","i","k","i">>, <<"r","e","q","u","a","r","k","s","/","w","i","k","i">>>>,
      <<<<"g","r","a","f","a","n","a","/","g","r","a","f","a","n","a">>, <<"g","r","a","f","a","n","a","/","g","r","a","f","a","n","a">>>>,
      <<<<"p","r","o","m","/","p","r","o","m","e","t","h","e","u","s">>, <<"p","r","o","m","e","t","h","e","u","s","/","p","r","o","m","e","t","h","e","u","s">>>>,
      <<<<"g","r","a","f","a","n","a","/","l","o","k","i">>, <<"g","r","a","f","a","n","a","/","l","o","k","i">>>>,
      <<<<"g","r","a","f","a","n","a","/","p","r","o","m","t","a","i","l">>, <<"g","r","a","f","a","n","a","/","l","o","k","i">>>>,
      <<<<"l","o","u","i","s","l","a","m","/","u","p","t","i","m","e","-","k","u","m","a">>, <<"l","o","u","i","s","l","a","m","/","u","p","t","i","m","e","-","k","u","m","a">>>>,
      <<<<"g","h","c","r",".","i","o","/","b","i","g","b","o","o","t","/","a","u","t","o","k","u","m","a">>, <<"B","i","g","B","o","o","t","/","A","u","t","o","K","u","m","a">>>>,
      <<<<"g","h","c","r",".","i","o","/","h","o","m","e","-","a","s","s","i","s","t","a","n","t","/","h","o","m","e","-","a","s","s","i","s","t","a","n","t">>, <<"h","o","m","e","-","a","s","s","i","s","t","a","n","t","/","c","o","r","e">>>>,
      <<<<"e","c","l","i","p","s","e","-","m","o","s","q","u","i","t","t","o">>, <<"e","c","l","i","p","s","e","/","m","o","s","q","u","i","t","t","o">>>>,
      <<<<"k","o","e","n","k","k","/","z","i","g","b","e","e","2","m","q","t","t">>, <<"K","o","e","n","k","k","/","z","i","g","b","e","e","2","m","q","t","t">>>>,
      <<<<"g","h","c","r",".","i","o","/","h","o","m","e","-","a","s","s","i","s","t","a","n","t","-","l","i","b","s","/","p","y","t","h","o","n","-","m","a","t","t","e","r","-","s","e","r","v","e","r">>, <<"h","o","m","e","-","a","s","s","i","s","t","a","n","t","-","l","i","b","s","/","p","y","t","h","o","n","-","m","a","t","t","e","r","-","s","e","r","v","e","r">>>>,
      <<<<"t","e","s","l","a","m","a","t","e","/","t","e","s","l","a","m","a","t","e">>, <<"a","d","r","i","a","n","k","u","m","p","f","/","t","e","s","l","a","m","a","t","e">>>>,
      <<<<"t","e","s","l","a","m","a","t","e","/","g","r","a","f","a","n","a">>, <<"a","d","r","i","a","n","k","u","m","p","f","/","t","e","s","l","a","m","a","t","e">>>>,
      <<<<"p","o","s","t","g","r","e","s">>, <<"p","o","s","t","g","r","e","s","/","p","o","s","t","g","r","e","s">>>>,
      <<<<"r","e","d","i","s">>, <<"r","e","d","i","s","/","r","e","d","i","s">>>>,
      <<<<"m","a","r","i","a","d","b">>, <<"M","a","r","i","a","D","B","/","s","e","r","v","e","r">>>>,
      <<<<"b","i","t","n","a","m","i","/","r","e","d","i","s">>, <<"b","i","t","n","a","m","i","/","c","o","n","t","a","i","n","e","r","s">>>>,
      <<<<"z","o","e","y","v","i","d","/","n","p","m","p","l","u","s">>, <<"Z","o","e","y","V","i","d","/","N","P","M","p","l","u","s">>>>,
      <<<<"f","i","g","r","o","/","u","n","r","a","i","d","-","c","l","o","u","d","f","l","a","r","e","d","-","t","u","n","n","e","l">>, <<"c","l","o","u","d","f","l","a","r","e","/","c","l","o","u","d","f","l","a","r","e","d">>>>,
      <<<<"m","y","o","u","n","g","3","4","/","g","i","t","h","u","b","-","r","u","n","n","e","r">>, <<"m","y","o","u","n","g","3","4","/","d","o","c","k","e","r","-","g","i","t","h","u","b","-","a","c","t","i","o","n","s","-","r","u","n","n","e","r">>>> }

\* image key -> tag convention, as pairs
VERSION_PATTERNS ==
    { <<<<"d","a","s","h","y">>, Pat(<<"r","e","l","e","a","s","e","-">>, 3, 3, 0, FALSE)>>,  \* ^release-\d+\.\d+\.\d+$
      <<<<"f","i","l","e","b","r","o","w","s","e","r">>, Pat(<<"v">>, 3, 3, 0, FALSE)>>,  \* ^v\d+\.\d+\.\d+$
      <<<<"u","p","t","i","m","e","k","u","m","a">>, Pat(<<>>, 3, 3, 0, FALSE)>>,  \* ^\d+\.\d+\.\d+$
      <<<<"g","r","a","f","a","n","a">>, Pat(<<>>, 3, 3, 0, FALSE)>>,  \* ^\d+\.\d+\.\d+$
      <<<<"p","r","o","m","e","t","h","e","u","s">>, Pat(<<"v">>, 3, 3, 0, FALSE)>>,  \* ^v\d+\.\d+\.\d+$
      <<<<"l","o","k","i">>, Pat(<<>>, 3, 3, 0, FALSE)>>,  \* ^\d+\.\d+\.\d+$
      <<<<"p","r","o","m","t","a","i","l">>, Pat(<<>>, 3, 3, 0, FALSE)>>,  \* ^\d+\.\d+\.\d+$
      <<<<"a","u","t","h","e","n","t","i","k">>, Pat(<<>>, 3, 3, 4, FALSE)>>,  \* ^\d{4}\.\d+\.\d+$
      <<<<"v","a","u","l","t","w","a","r","d","e","n">>, Pat(<<>>, 3, 3, 0, FALSE)>>,  \* ^\d+\.\d+\.\d+$
      <<<<"n","e","x","t","c","l","o","u","d">>, Pat(<<>>, 3, 3, 0, FALSE)>>,  \* ^\d+\.\d+\.\d+$
      <<<<"t","e","s","l","a","m","a","t","e">>, Pat(<<>>, 3, 3, 0, FALSE)>>,  \* ^\d+\.\d+\.\d+$
      <<<<"h","o","m","e","-","a","s","s","i","s","t","a","n","t">>, Pat(<<>>, 2, 2, 4, FALSE)>>,  \* ^\d{4}\.\d+$
      <<<<"z","i","g","b","e","e","2","m","q","t","t">>, Pat(<<>>, 3, 3, 0, FALSE)>>,  \* ^\d+\.\d+\.\d+$
      <<<<"m","a","t","t","e","r","-","s","e","r","v","e","r">>, Pat(<<>>, 3, 3, 0, FALSE)>>,  \* ^\d+\.\d+\.\d+$
      <<<<"r","e","d","i","s">>, Pat(<<>>, 2, 3, 0, TRUE)>>,  \* ^\d+\.\d+(\.\d+)?(-alpine)?$
      <<<<"p","o","s","t","g","r","e","s">>, Pat(<<>>, 1, 2, 0, FALSE)>>,  \* ^\d+(\.\d+)?$
      <<<<"m","a","r","i","a","d","b">>, Pat(<<>>, 3, 3, 0, FALSE)>>,  \* ^\d+\.\d+\.\d+$
      <<<<"i","m","m","i","c","h">>, Pat(<<>>, 3, 3, 0, FALSE)>>,  \* ^\d+\.\d+\.\d+$
      <<<<"r","o","m","m">>, Pat(<<>>, 3, 3, 0, FALSE)>>,  \* ^\d+\.\d+\.\d+$
      <<<<"a","c","t","u","a","l","s","e","r","v","e","r">>, Pat(<<>>, 3, 3, 0, FALSE)>>,  \* ^\d+\.\d+\.\d+$
      <<<<"w","i","k","i","j","s">>, Pat(<<>>, 3, 3, 0, FALSE)>>,  \* ^\d+\.\d+\.\d+$
      <<<<"o","n","l","y","o","f","f","i","c","e">>, Pat(<<>>, 3, 3, 0, FALSE)>>,  \* ^\d+\.\d+\.\d+$
      <<<<"d","u","p","l","i","c","a","t","i">>, Pat(<<>>, 3, 3, 0, FALSE)>>,  \* ^\d+\.\d+\.\d+$
      <<<<"m","o","s","q","u","i","t","t","o">>, Pat(<<>>, 3, 3, 0, FALSE)>>,  \* ^\d+\.\d+\.\d+$
      <<<<"n","p","m","p","l","u","s">>, Pat(<<>>, 1, 1, 0, FALSE)>>,  \* ^\d+$
      <<<<"c","l","o","u","d","f","l","a","r","e","d">>, Pat(<<>>, 3, 3, 4, FALSE)>>,  \* ^\d{4}\.\d+\.\d+$
      <<<<"g","i","t","h","u","b","-","r","u","n","n","e","r">>, Pat(<<"v">>, 3, 3, 0, FALSE)>>,  \* ^v\d+\.\d+\.\d+$
      <<<<"a","u","t","o","k","u","m","a">>, Pat(<<>>, 3, 3, 0, FALSE)>> }  \* ^\d+\.\d+\.\d+$

\* table.get(key): the values under the key, none or one
Get(table, key) == {e[2] : e \in {x \in table : x[1] = key}}

\* re.match(pattern, tag) for a pattern of VERSION_PATTERNS (the tags of the
\* model hold ASCII digits only and no newline)
MatchPat(p, tag) ==
    /\ StartsWith(tag, p.pre)
    /\ LET rest   == DropFirst(tag, Len(p.pre))
           body   == IF p.alpine /\ EndsWith(rest, <<"-","a","l","p","i","n","e">>)
                     THEN DropLast(rest, Len(<<"-","a","l","p","i","n","e">>)) ELSE rest
           groups == Split(body, ".")
       IN  /\ \A k \in 1..Len(groups) : IsNumber(groups[k])
           /\ Len(groups) >= p.lo
           /\ Len(groups) <= p.hi
           /\ p.first > 0 => Len(groups[1]) = p.first

\* r'^\d+\.\d+(\.\d+)?$', lines 239 and 314
GenericNumeric == Pat(<<>>, 2, 3, 0, FALSE)

\* r'^v\d+\.\d+(\.\d+)?$', lines 241 and 316
GenericVPrefixed == Pat(<<"v">>, 2, 3, 0, FALSE)

---------------------------------------------------------------------------
(* packaging.version and compare_versions, lines 101-109.                  *)

\* What version.parse keeps of a string: whether it is a version, and its
\* release numbers without trailing zeros (the key Version objects compare
\* by) and its pre-release segment.  A leading v is accepted, and so is a
\* release candidate, written -rcN.  The tags of the model carry no epoch and
\* no post-, dev- or local segment; any other string is InvalidVersion.
VersionParse(s) ==
    LET body   == IF StartsWith(s, <<"v">>) THEN DropFirst(s, 1) ELSE s
        at     == IF Contains(body, <<"-","r","c">>) THEN FindFirst(body, <<"-","r","c">>) + 1 ELSE 0
        head   == IF at = 0 THEN body ELSE SubSeq(body, 1, at - 1)
        rc     == IF at = 0 THEN <<>> ELSE SubSeq(body, at + 3, Len(body))
        groups == Split(head, ".")
        valid  == /\ \A k \in 1..Len(groups) : IsNumber(groups[k])
                  /\ rc = <<>> \/ IsNumber(rc)
        nums   == [k \in 1..Len(groups) |-> IF valid THEN IntOf(groups[k]) ELSE 0]
        used   == {k \in 1..Len(nums) : nums[k] # 0}
        last   == IF used = {} THEN 0 ELSE CHOOSE k \in used : \A h \in used : h <= k
    IN  [valid |-> valid, release |-> SubSeq(nums, 1, last),
         pre |-> IF at = 0 THEN <<1>>
                 ELSE IF valid /\ rc # <<>> THEN <<0, IntOf(rc)>> ELSE <<0, 0>>]

\* a < b for tuples of integers, as Python compares tuples
TupleLess(a, b) ==
    \E k \in 1..(Len(b)) :
        /\ \A h \in 1..(k - 1) : h <= Len(a) /\ a[h] = b[h]
        /\ (k > Len(a) \/ a[k] < b[k])

\* Version.__gt__: the release numbers decide, and of two versions with the
\* same release numbers a release candidate is the lesser
VersionGreater(a, b) ==
    \/ TupleLess(b.release, a.release)
    \/ a.release = b.release /\ TupleLess(b.pre, a.pre)

compare_versions(current, latest) ==
    LET c == VersionParse(clean_version(current))
        l == VersionParse(clean_version(latest))
    IN  IF c.valid /\ l.valid THEN VersionGreater(l, c) ELSE FALSE

---------------------------------------------------------------------------
(* get_image_key, lines 168-176.                                           *)

get_image_key(image_name) ==
    LET clean_name == Remove(Remove(Remove(Remove(image_name,
                          <<"g","h","c","r",".","i","o","/">>), <<"l","s","c","r",".","i","o","/">>), <<"d","o","c","k","e","r",".","i","o","/">>), <<"q","u","a","y",".","i","o","/">>)
        parts == Split(clean_name, "/")
    IN  IF Contains(clean_name, <<"/">>)
        THEN Split(parts[Len(parts)], ":")[1]
        ELSE Split(clean_name, ":")[1]

---------------------------------------------------------------------------
(* The registry tag providers, lines 199-333.  A response is what the      *)
(* registry answers: status "200" with the tags in the registry's order,   *)
(* "429", another status ("500"), or "raise" when the request or the       *)
(* decoding of its body raises.  A provider returns the tag (or None); the  *)
(* result carries the seconds it slept after a 429 and the number of       *)
(* requests it sent.                                                       *)

Result(tag, slept, requests) == [tag |-> tag, slept |-> slept, requests |-> requests]

\* lines 300-317: the tags that match the image's pattern; when there is no
\* pattern or none matches, the tags that match a generic form
ValidTags(image_key, tags) ==
    LET pattern    == Get(VERSION_PATTERNS, image_key)
        by_pattern == LET ok(t) == \E p \in pattern : MatchPat(p, t)
                      IN  SelectSeq(tags, ok)
        generic    == LET ok(t) == MatchPat(GenericNumeric, t) \/ MatchPat(GenericVPrefixed, t)
                      IN  SelectSeq(tags, ok)
    IN  IF by_pattern # <<>> THEN by_pattern ELSE generic

\* lines 322-329: sorted(valid_tags, key=..., reverse=True)[0], the first of
\* the tags with the greatest version (the sort is stable); valid_tags[0]
\* when a tag does not parse
HighestTag(valid_tags) ==
    LET key(k) == VersionParse(clean_version(valid_tags[k]))
        idx    == 1..Len(valid_tags)
    IN  IF \E k \in idx : ~key(k).valid THEN valid_tags[1]
        ELSE valid_tags[CHOOSE k \in idx :
                 /\ \A h \in idx : ~VersionGreater(key(h), key(k))
                 /\ \A h \in 1..(k - 1) : VersionGreater(key(k), key(h))]

\* get_dockerhub_latest_tag without the branch of lines 282-285
get_dockerhub_latest_tag_NoBackoff(registry_path, response) ==
    IF response.status # "200" THEN Result(None, 0, 1)
    ELSE IF response.tags = <<>> THEN Result(None, 0, 1)
    ELSE LET valid_tags == ValidTags(get_image_key(registry_path), response.tags)
         IN  IF valid_tags = <<>> THEN Result(None, 0, 1)
             ELSE Result(HighestTag(valid_tags), 0, 1)

\* lines 271-333: one request (line 280); a 429 is answered with a sleep of
\* 30 seconds and None, any other failure with None
get_dockerhub_latest_tag(registry_path, response) ==
    IF response.status = "429" THEN Result(None, 30, 1)
    ELSE IF response.status # "200" THEN Result(None, 0, 1)
    ELSE IF response.tags = <<>> THEN Result(None, 0, 1)
    ELSE LET valid_tags == ValidTags(get_image_key(registry_path), response.tags)
         IN  IF valid_tags = <<>> THEN Result(None, 0, 1)
             ELSE Result(HighestTag(valid_tags), 0, 1)

\* lines 234-244: the first tag, in the order the nested loops visit the
\* versions' tag lists, that matches the pattern or a generic form
FirstMatchingTag(image_key, tags) ==
    LET pattern == Get(VERSION_PATTERNS, image_key)
        ok(t)   == \/ \E p \in pattern : MatchPat(p, t)
                   \/ MatchPat(GenericNumeric, t)
                   \/ MatchPat(GenericVPrefixed, t)
        hits    == SelectSeq(tags, ok)
    IN  IF hits = <<>> THEN None ELSE hits[1]

\* lines 199-248: one request (line 215), none for a path without an owner;
\* a 429 is answered with a sleep of 60 seconds and None, any other failure
\* with None
get_ghcr_latest_tag(registry_path, response) ==
    IF Len(Split(registry_path, "/")) < 2 THEN Result(None, 0, 0)
    ELSE IF response.status = "429" THEN Result(None, 60, 1)
    ELSE IF response.status # "200" THEN Result(None, 0, 1)
    ELSE IF response.tags = <<>> THEN Result(None, 0, 1)
    ELSE Result(FirstMatchingTag(get_image_key(registry_path), response.tags), 0, 1)

\* lines 250-269: the registry variant follows from the image name's prefix
RegistryOf(image_name) ==
    IF StartsWith(image_name, <<"g","h","c","r",".","i","o","/">>) THEN "ghcr" ELSE "dockerhub"

get_latest_docker_tag(image_name, response) ==
    IF StartsWith(image_name, <<"g","h","c","r",".","i","o","/">>)
    THEN get_ghcr_latest_tag(Remove(image_name, <<"g","h","c","r",".","i","o","/">>), response)
    ELSE IF StartsWith(image_name, <<"l","s","c","r",".","i","o","/">>)
    THEN get_dockerhub_latest_tag(Remove(image_name, <<"l","s","c","r",".","i","o","/">>), response)
    ELSE IF ~Contains(image_name, <<"/">>)
    THEN get_dockerhub_latest_tag(<<"l","i","b","r","a","r","y","/">> \o image_name, response)
    ELSE get_dockerhub_latest_tag(image_name, response)

---------------------------------------------------------------------------
(* What a registry may answer.                                             *)

\* the tags a registry may list
CandidatePool == {<<"9",".","5",".","0">>, <<"9",".","5",".","1">>, <<"9",".","4",".","9">>, <<"9",".","1","0",".","0">>, <<"v","9",".","6",".","0">>, <<"l","a","t","e","s","t">>}

\* every sequence of at most n elements of a set
RECURSIVE SeqsUpTo(_, _)
SeqsUpTo(S, n) ==
    IF n = 0 THEN {<<>>}
    ELSE LET shorter == SeqsUpTo(S, n - 1)
         IN  shorter \cup {Append(s, x) : s \in shorter, x \in S}

Responses(pool, n) ==
    {[status |-> "200", tags |-> t] : t \in SeqsUpTo(pool, n)}
        \cup {[status |-> s, tags |-> <<>>] : s \in {"429", "500", "raise"}}

---------------------------------------------------------------------------
(* The numeric-dotted order of the specification (section 4.4): the        *)
(* cleaned versions are compared number by number, a missing trailing      *)
(* number counting as zero.                                                *)

IsDottedNumeric(s) ==
    LET groups == Split(s, ".") IN \A k \in 1..Len(groups) : IsNumber(groups[k])

DottedNumbers(s) ==
    LET groups == Split(s, ".") IN [k \in 1..Len(groups) |-> IntOf(groups[k])]

NumberAt(nums, k) == IF k <= Len(nums) THEN nums[k] ELSE 0

\* a is strictly greater than b
DottedGreater(a, b) ==
    LET width == IF Len(a) >= Len(b) THEN Len(a) ELSE Len(b)
    IN  \E k \in 1..width :
            /\ NumberAt(a, k) > NumberAt(b, k)
            /\ \A h \in 1..(k - 1) : NumberAt(a, h) = NumberAt(b, h)

\* tag new is strictly greater than tag old
StrictlyNewer(new, old) ==
    LET n == clean_version(new)
        o == clean_version(old)
    IN  /\ IsDottedNumeric(n)
        /\ IsDottedNumeric(o)
        /\ DottedGreater(DottedNumbers(n), DottedNumbers(o))

---------------------------------------------------------------------------
(* RateLimitManager, lines 118-138.  Time is counted in half seconds, the  *)
(* unit of the shortest delay.                                             *)

\* self.delays: 2.0 s, 3.0 s, 1.0 s and 0.5 s
delays == [dockerhub |-> 4, ghcr |-> 6, github_api |-> 2, default |-> 1]

\* self.delays.get(registry_type, self.delays['default'])
DelayOf(registry_type) ==
    IF registry_type \in DOMAIN delays THEN delays[registry_type] ELSE delays["default"]

\* self.last_request.get(registry_type, 0)
LastOf(registry_type) ==
    IF registry_type \in DOMAIN last_request THEN last_request[registry_type] ELSE 0

\* SleepNeeded without the sleep of lines 135-136
SleepNeeded_Never(t, last, delay) == 0

\* lines 135-136: the time to sleep
SleepNeeded(t, last, delay) == IF t - last < delay THEN delay - (t - last) ELSE 0

\* no call of wait_if_needed yet
NoWait == [class |-> "none", slept |-> 0, at |-> 0]

\* wait_if_needed: time.sleep returns after at least the time asked, at most
\* MaxOversleep later, and the clock read then is recorded
wait_if_needed(registry_type) ==
    LET sleep == SleepNeeded(now, LastOf(registry_type), DelayOf(registry_type))
    IN  \E late \in 0..MaxOversleep :
            /\ now + sleep + late <= MaxClock
            /\ now' = now + sleep + late
            /\ last_request' = (registry_type :> now') @@ last_request
            /\ last_wait' = [class |-> registry_type, slept |-> sleep, at |-> now']

---------------------------------------------------------------------------
(* The manifests.  A document is what yaml.safe_load makes of a file:      *)
(*   "unreadable"   opening or parsing the file raises                      *)
(*   "empty"        the file holds no document (safe_load returns None)     *)
(*   "no_services"  a mapping without the key 'services'                    *)
(*   "services"     a mapping whose 'services' maps names to entries        *)
(*   "partial"      what a failed dump leaves of a file                     *)
(* and a service entry is                                                  *)
(*   "null"         no mapping at all (the key has no value)                *)
(*   "no_image"     a mapping without the key 'image'                       *)
(*   "image"        a mapping whose 'image' is the string in image          *)
(*   "bad_image"    a mapping whose 'image' is not a string                 *)
(* rest stands for every other key of a mapping.                           *)

Doc(kind, services) == [kind |-> kind, services |-> services, rest |-> "top-level keys"]

NoDoc == Doc("none", <<>>)

Service(name, kind, image) == [name |-> name, kind |-> kind, image |-> image, rest |-> "other keys"]


---------------------------------------------------------------------------
(* The values the variables of a specification keep while another one runs. *)

MainIdle ==
    /\ compose_files = <<>> /\ disk = <<>> /\ disk0 = <<>>
    /\ pc = "idle" /\ file_idx = 0 /\ svc_idx = 0
    /\ compose_data = NoDoc /\ updates = <<>> /\ modified = FALSE
    /\ all_updates = <<>> /\ calls = {} /\ rewritten = {} /\ write_failed = {}
    /\ env_file = <<>>

RateIdle == now = 0 /\ last_request = <<>> /\ last_wait = NoWait

FnIdle == arg = None /\ out1 = None /\ out2 = None /\ fpc = "idle"

\* every concatenation of at most n of the parts
RECURSIVE Concats(_, _)
Concats(parts, n) ==
    IF n = 0 THEN {<<>>}
    ELSE LET shorter == Concats(parts, n - 1)
         IN  shorter \cup {s \o p : s \in shorter, p \in parts}

---------------------------------------------------------------------------
(* The decisions and helpers of check_service_for_updates and main().      *)

\* line 394: "github-runner" in path or "automation/github-runner" in path
\* IsProtected without the test of lines 394-396
IsProtected_Never(compose_file_path) == FALSE

IsProtected(compose_file_path) ==
    \/ Contains(compose_file_path, <<"g","i","t","h","u","b","-","r","u","n","n","e","r">>)
    \/ Contains(compose_file_path, <<"a","u","t","o","m","a","t","i","o","n","/","g","i","t","h","u","b","-","r","u","n","n","e","r">>)

\* UsesLatest with == in place of endswith
UsesLatest_Whole(current_image) == current_image = <<":","l","a","t","e","s","t">>

\* line 417
UsesLatest(current_image) == EndsWith(current_image, <<":","l","a","t","e","s","t">>)

\* line 433: latest_tag and compare_versions(current_tag, latest_tag)
IsUpdate(current_tag, latest_tag) ==
    latest_tag # None /\ compare_versions(current_tag, latest_tag)

\* ShouldSave without the test of line 462
ShouldSave_Always(was_modified) == TRUE

\* line 462
ShouldSave(was_modified) == was_modified

\* the code point of a printable ASCII character
CodePoint(c) == 31 + CHOOSE k \in 1..Len(AsciiPrintable) : AsciiPrintable[k] = c

\* a < b for str, as Python compares strings
StrLess(a, b) ==
    \E k \in 1..Len(b) :
        /\ \A h \in 1..(k - 1) : h <= Len(a) /\ a[h] = b[h]
        /\ (k > Len(a) \/ CodePoint(a[k]) < CodePoint(b[k]))

\* sorted(S) for a set of strings
RECURSIVE Sorted(_)
Sorted(S) ==
    IF S = {} THEN <<>>
    ELSE LET least == CHOOSE x \in S : \A y \in S \ {x} : StrLess(x, y)
         IN  <<least>> \o Sorted(S \ {least})

\* an UpdateRecord, lines 446-454
UpdateRecord(service, file, old_version, new_version, image, changelog, repo) ==
    [service |-> service, file |-> file, old_version |-> old_version,
     new_version |-> new_version, image |-> image, changelog |-> changelog, repo |-> repo]

\* the position after manifest k: the next manifest, or the report
AfterManifest(k) == IF k < Len(compose_files) THEN "scan" ELSE "report"

\* the image fields of the services
ImagePool ==
    {<<"r","e","d","i","s",":","9",".","5",".","0">>, <<"r","e","d","i","s",":","9",".","5",".","0","-","r","c","1">>, <<"r","e","d","i","s",":","l","a","t","e","s","t">>, <<"r","e","d","i","s">>,
     <<"g","h","c","r",".","i","o","/","i","m","a","g","e","g","e","n","i","u","s","/","i","m","m","i","c","h",":","9",".","5",".","0">>}

\* the manifest of the CI runner holds this image
RunnerImage == <<"m","y","o","u","n","g","3","4","/","g","i","t","h","u","b","-","r","u","n","n","e","r",":","v","9",".","5",".","0">>

\* line 431, get_latest_docker_tag(image_name, rate_limiter): for each image
\* name of the manifests, the tags the call returns over all the responses
\* the registry may give
\* the tags the registries hold during a run
RegistryTags == {<<"9",".","5",".","0">>, <<"9",".","1","0",".","0">>, <<"9",".","4",".","9">>, <<"v","9",".","6",".","0">>, <<"l","a","t","e","s","t">>}

LatestTags ==
    [image_name \in {RSplit1(im, ":")[1] : im \in ImagePool \cup {RunnerImage}} |->
        {get_latest_docker_tag(image_name, response).tag :
            response \in Responses(RegistryTags, MaxTags)}]

---------------------------------------------------------------------------
(* main() and check_service_for_updates, lines 390-470 and 515-598.  The   *)
(* waits a provider call makes (lines 202, 274, 338) change the state of   *)
(* the rate limiter only, and every sequence of them is a behaviour of     *)
(* SpecRate; here the clock is left out and a provider call takes whatever *)
(* response the registry gives.                                            *)

\* lines 557-564 and 390-408: the next manifest is opened.  A protected or
\* unreadable manifest, or one without services, returns ([], False); an
\* empty document raises TypeError at line 405, which nothing catches.
BeginManifest ==
    /\ pc = "scan"
    /\ LET path == compose_files[file_idx]
           doc  == disk[file_idx]
       IN  IF IsProtected(path) \/ doc.kind \in {"unreadable", "no_services"}
           THEN /\ pc' = AfterManifest(file_idx)
                /\ file_idx' = file_idx + 1
                /\ UNCHANGED <<compose_data, svc_idx, updates, modified>>
           ELSE IF doc.kind = "empty"
           THEN /\ pc' = "aborted"
                /\ UNCHANGED <<file_idx, compose_data, svc_idx, updates, modified>>
           ELSE /\ compose_data' = doc
                /\ updates' = <<>>
                /\ modified' = FALSE
                /\ svc_idx' = 1
                /\ pc' = IF doc.services = <<>> THEN "save" ELSE "service"
                /\ UNCHANGED file_idx
    /\ UNCHANGED <<compose_files, disk, disk0, all_updates, calls, rewritten,
                   write_failed, env_file, rateVars, fnVars>>

\* the position after service k of the manifest in hand
AfterService(k) == IF k < Len(compose_data.services) THEN "service" ELSE "save"

\* a service is passed over: lines 411-412, 417-419, 425-426
SkipService ==
    /\ svc_idx' = svc_idx + 1
    /\ pc' = AfterService(svc_idx)
    /\ UNCHANGED <<compose_data, updates, modified, calls>>

\* lines 410-459: one turn of the loop over the services.  An entry that is
\* no mapping raises TypeError at line 411 and an image that is no string
\* raises AttributeError at line 417; nothing catches either.
CheckService ==
    /\ pc = "service"
    /\ LET service_config == compose_data.services[svc_idx]
           current_image  == service_config.image
       IN  IF service_config.kind \in {"null", "bad_image"}
           THEN /\ pc' = "aborted"
                /\ UNCHANGED <<svc_idx, compose_data, updates, modified, calls>>
           ELSE IF service_config.kind = "no_image" THEN SkipService
           ELSE IF UsesLatest(current_image) THEN SkipService
           ELSE IF ~Contains(current_image, <<":">>) THEN SkipService
           ELSE LET image_name  == RSplit1(current_image, ":")[1]
                    current_tag == RSplit1(current_image, ":")[2]
                    repo_name   == Get(REPO_MAPPINGS, image_name)
                IN  \E latest_tag \in LatestTags[image_name] :
                      /\ calls' = calls \cup {<<file_idx, svc_idx>>}
                      /\ svc_idx' = svc_idx + 1
                      /\ pc' = AfterService(svc_idx)
                      /\ IF IsUpdate(current_tag, latest_tag)
                         THEN \E changelog \in (IF repo_name = {} THEN {"None"}
                                                ELSE {"None", "releases"}) :
                                /\ compose_data' =
                                     [compose_data EXCEPT !.services[svc_idx].image =
                                          image_name \o <<":">> \o latest_tag]
                                /\ modified' = TRUE
                                /\ updates' = Append(updates,
                                     UpdateRecord(service_config.name, compose_files[file_idx],
                                                  current_tag, latest_tag, image_name,
                                                  changelog, repo_name))
                         ELSE UNCHANGED <<compose_data, updates, modified>>
    /\ UNCHANGED <<compose_files, disk, disk0, file_idx, all_updates, rewritten,
                   write_failed, env_file, rateVars, fnVars>>

\* lines 461-470 and 565-569: the manifest is written back when it was
\* modified.  The write succeeds, or open() raises and the file is as it was,
\* or the dump raises and leaves a part of the file; on either failure the
\* function returns (updates, False).  main() keeps the updates it is given.
SaveManifest ==
    /\ pc = "save"
    /\ IF ShouldSave(modified)
       THEN \E outcome \in {"written", "open_failed", "dump_failed"} :
              /\ disk' = [disk EXCEPT ![file_idx] =
                            CASE outcome = "written" -> compose_data
                              [] outcome = "open_failed" -> @
                              [] outcome = "dump_failed" -> Doc("partial", <<>>)]
              /\ rewritten' = IF outcome = "written" THEN rewritten \cup {file_idx} ELSE rewritten
              /\ write_failed' = IF outcome = "written" THEN write_failed
                                 ELSE write_failed \cup {file_idx}
       ELSE UNCHANGED <<disk, rewritten, write_failed>>
    /\ all_updates' = all_updates \o updates
    /\ pc' = AfterManifest(file_idx)
    /\ file_idx' = file_idx + 1
    /\ UNCHANGED <<compose_files, disk0, svc_idx, compose_data, updates, modified,
                   calls, env_file, rateVars, fnVars>>

---------------------------------------------------------------------------
(* safe_write_github_env, lines 472-513, and the end of main().            *)

\* str(n) for a natural number
RECURSIVE DecimalOf(_)
DecimalOf(n) ==
    LET digit == <<"0", "1", "2", "3", "4", "5", "6", "7", "8", "9">>[(n % 10) + 1]
    IN  IF n < 10 THEN <<digit>> ELSE DecimalOf(n \div 10) \o <<digit>>

\* str.upper() of printable ASCII
Upper(s) ==
    [k \in 1..Len(s) |->
        IF CodePoint(s[k]) \in 97..122 THEN AsciiPrintable[CodePoint(s[k]) - 32 - 31] ELSE s[k]]

\* sep.join(lines)
RECURSIVE Join(_, _)
Join(sep, lines) ==
    IF lines = <<>> THEN <<>>
    ELSE IF Len(lines) = 1 THEN lines[1]
    ELSE lines[1] \o sep \o Join(sep, Tail(lines))

\* line 485: update['file'].split('/')[1]
CategoryOf(update) == Split(update.file, "/")[2]

\* lines 494-501: the lines of the categories, in sorted order
RECURSIVE CategoryLines(_, _)
CategoryLines(categories, updates_) ==
    IF categories = <<>> THEN <<>>
    ELSE LET in_category(u) == CategoryOf(u) = categories[1]
             cat_updates == SelectSeq(updates_, in_category)
             entry(k) == <<" "," ","-"," ">> \o sanitize_for_github_env(cat_updates[k].service)
                         \o <<":"," ">> \o sanitize_for_github_env(cat_updates[k].old_version)
                         \o <<" ","-",">"," ">> \o sanitize_for_github_env(cat_updates[k].new_version)
         IN  <<Upper(categories[1]) \o <<":">>>>
                 \o [k \in 1..Len(cat_updates) |-> entry(k)]
                 \o <<<<>>>>
                 \o CategoryLines(Tail(categories), updates_)

\* lines 480-504: the summary, one line of text
SummaryContent(updates_) ==
    LET by_category == {CategoryOf(updates_[k]) : k \in 1..Len(updates_)}
    IN  Join(<<" ","|"," ">>,
             <<<<"F","o","u","n","d"," ">> \o DecimalOf(Len(updates_)) \o <<" ","c","o","n","t","a","i","n","e","r"," ","u","p","d","a","t","e","s"," ","a","c","r","o","s","s"," ">>
                   \o DecimalOf(Cardinality(by_category)) \o <<" ","c","a","t","e","g","o","r","i","e","s">>,
               <<>>>>
                 \o CategoryLines(Sorted(by_category), updates_))

EnvLine(key, value) == [key |-> key, value |-> value]

\* lines 476-477 and 511-512
FlagLines == <<EnvLine("UPDATES_FOUND", <<"t","r","u","e">>), EnvLine("UPDATE_DATE", <<"Y","Y","Y","Y","-","M","M","-","D","D">>)>>

\* line 513
FallbackLine(updates_) ==
    EnvLine("UPDATE_SUMMARY", <<"F","o","u","n","d"," ">> \o DecimalOf(Len(updates_)) \o <<" ","c","o","n","t","a","i","n","e","r"," ","u","p","d","a","t","e","s">>)

\* What safe_write_github_env appends to the file, given where the try block
\* fails: nowhere ("none"); at open(), before anything is written ("open");
\* or after the two flag lines are written, while the summary is built or
\* written ("summary").  The lines written before the failure stay in the
\* file, and the handler then appends the three fallback lines.
safe_write_github_env(updates_, failure) ==
    CASE failure = "none" ->
            FlagLines \o <<EnvLine("UPDATE_SUMMARY", SummaryContent(updates_))>>
      [] failure = "open" ->
            FlagLines \o <<FallbackLine(updates_)>>
      [] failure = "summary" ->
            FlagLines \o FlagLines \o <<FallbackLine(updates_)>>

\* lines 573-598: the results are written.  When open() fails in the try block
\* it may fail again in the handler, and that exception leaves main(); so
\* does a failure of open() at line 594.
Report ==
    /\ pc = "report"
    /\ IF all_updates # <<>>
       THEN \E failure \in {"none", "open", "summary"}, handler_fails \in BOOLEAN :
              IF failure = "open" /\ handler_fails
              THEN pc' = "aborted" /\ UNCHANGED env_file
              ELSE /\ failure # "open" => ~handler_fails
                   /\ env_file' = env_file \o safe_write_github_env(all_updates, failure)
                   /\ pc' = "done"
       ELSE \E open_fails \in BOOLEAN :
              IF open_fails
              THEN pc' = "aborted" /\ UNCHANGED env_file
              ELSE /\ env_file' = env_file \o <<EnvLine("UPDATES_FOUND", <<"f","a","l","s","e">>)>>
                   /\ pc' = "done"
    /\ UNCHANGED <<compose_files, disk, disk0, file_idx, svc_idx, compose_data, updates,
                   modified, all_updates, calls, rewritten, write_failed, rateVars, fnVars>>

---------------------------------------------------------------------------
(* Spec: a run of main() over three manifests, one of them in the          *)
(* protected category.                                                     *)

ManifestPaths ==
    {<<"s","e","r","v","i","c","e","s","/","a","u","t","o","m","a","t","i","o","n","/","g","i","t","h","u","b","-","r","u","n","n","e","r","/","d","o","c","k","e","r","-","c","o","m","p","o","s","e",".","y","m","l">>,
     <<"s","e","r","v","i","c","e","s","/","i","n","f","r","a","s","t","r","u","c","t","u","r","e","/","r","e","d","i","s","/","d","o","c","k","e","r","-","c","o","m","p","o","s","e",".","y","m","l">>,
     <<"s","e","r","v","i","c","e","s","/","m","e","d","i","a","/","i","m","m","i","c","h","/","d","o","c","k","e","r","-","c","o","m","p","o","s","e",".","y","m","l">>}

ServiceNames == <<<<"a","p","p">>, <<"d","b">>, <<"c","a","c","h","e">>>>

\* the entries the services of a manifest may have: a null entry, an entry
\* without an image, an image that is no string, and the images of ImagePool
FaultyEntries ==
    {[kind |-> "null", image |-> <<>>], [kind |-> "no_image", image |-> <<>>],
     [kind |-> "bad_image", image |-> <<>>]}

EntryPool(path) ==
    IF Contains(path, <<"r","e","d","i","s">>)
    THEN {e \in FaultyEntries : e.kind # "bad_image"}
            \cup {[kind |-> "image", image |-> im] : im \in {<<"r","e","d","i","s",":","9",".","5",".","0">>, <<"r","e","d","i","s",":","9",".","5",".","0","-","r","c","1">>, <<"r","e","d","i","s",":","l","a","t","e","s","t">>}}
    ELSE {e \in FaultyEntries : e.kind = "bad_image"}
            \cup {[kind |-> "image", image |-> im] :
                     im \in {<<"g","h","c","r",".","i","o","/","i","m","a","g","e","g","e","n","i","u","s","/","i","m","m","i","c","h",":","9",".","5",".","0">>, <<"r","e","d","i","s">>}}

\* the documents a manifest may hold: the services are named in order
DocPool(path) ==
    {Doc(k, <<>>) : k \in {"unreadable", "empty", "no_services"}}
        \cup {Doc("services", [k \in 1..Len(entries) |->
                                  Service(ServiceNames[k], entries[k].kind, entries[k].image)]) :
                 entries \in SeqsUpTo(EntryPool(path), MaxServices)}

\* the manifest of the CI runner
RunnerDoc == Doc("services", <<Service(<<"r","u","n","n","e","r">>, "image", RunnerImage)>>)

Init ==
    /\ compose_files = Sorted(ManifestPaths)
    /\ disk \in {d \in [1..Len(compose_files) ->
                            UNION {DocPool(p) : p \in ManifestPaths} \cup {RunnerDoc}] :
                    \A k \in DOMAIN d :
                        IF Contains(compose_files[k], <<"g","i","t","h","u","b","-","r","u","n","n","e","r">>) THEN d[k] = RunnerDoc
                        ELSE d[k] \in DocPool(compose_files[k])}
    /\ disk0 = disk
    /\ pc = "scan" /\ file_idx = 1 /\ svc_idx = 0
    /\ compose_data = NoDoc /\ updates = <<>> /\ modified = FALSE
    /\ all_updates = <<>> /\ calls = {} /\ rewritten = {} /\ write_failed = {}
    /\ env_file = <<>>
    /\ RateIdle /\ FnIdle

Next == BeginManifest \/ CheckService \/ SaveManifest \/ Report

Spec == Init /\ [][Next]_vars

---------------------------------------------------------------------------
(* Properties of a run of main().                                          *)

\* the records made so far: those of the finished manifests, then those of
\* the manifest in hand
Records == all_updates \o (IF pc \in {"service", "save"} THEN updates ELSE <<>>)

\* manifest k has been evaluated and main() has its result
Finished(k) == k < file_idx

NamesRunner(path) == Contains(path, <<"g","i","t","h","u","b","-","r","u","n","n","e","r">>)

TagOf(image) == RSplit1(image, ":")[2]

HasLatestTag(image) == Contains(image, <<":">>) /\ TagOf(image) = <<"l","a","t","e","s","t">>

\* service j of manifest k, as the manifest was before the run
Before(k, j) == disk0[k].services[j]

\* the records of service j of manifest k
RecordsOf(k, j) ==
    {r \in 1..Len(Records) :
        Records[r].file = compose_files[k] /\ Records[r].service = Before(k, j).name}

HasRecord(k) == \E r \in 1..Len(all_updates) : all_updates[r].file = compose_files[k]

\* C1: a manifest whose path contains "github-runner" is never rewritten and
\* none of its services' image fields changes; no record is made for it, no
\* registry is asked about its services and it is never loaded or saved.
C1_ProtectedUntouched ==
    \A k \in 1..Len(compose_files) :
        NamesRunner(compose_files[k]) =>
            /\ disk[k] = disk0[k]
            /\ k \notin rewritten \cup write_failed
            /\ \A r \in 1..Len(Records) : Records[r].file # compose_files[k]
            /\ \A c \in calls : c[1] # k
            /\ file_idx = k => pc = "scan"

\* the run is over, it passed a protected manifest, and the registry may
\* offer a strictly newer tag for a service of that manifest
C1_Witness ==
    /\ pc = "done"
    /\ \E k \in 1..Len(compose_files) :
          /\ NamesRunner(compose_files[k])
          /\ Finished(k)
          /\ disk0[k].kind = "services"
          /\ \E j \in 1..Len(disk0[k].services) :
                \E tag \in LatestTags[RSplit1(Before(k, j).image, ":")[1]] :
                    tag # None /\ StrictlyNewer(tag, TagOf(Before(k, j).image))

\* C2: for a service whose image has the tag "latest" no record is made, no
\* registry is asked, and the image field stays as it is, staged and on disk.
C2_LatestNeverChecked ==
    \A k \in 1..Len(compose_files) :
        disk0[k].kind = "services" =>
            \A j \in 1..Len(disk0[k].services) :
                (Before(k, j).kind = "image" /\ HasLatestTag(Before(k, j).image)) =>
                    /\ <<k, j>> \notin calls
                    /\ RecordsOf(k, j) = {}
                    /\ (file_idx = k /\ pc \in {"service", "save"}) =>
                           compose_data.services[j] = Before(k, j)
                    /\ disk[k].kind = "services" => disk[k].services[j] = Before(k, j)

\* the run is over; an evaluated manifest holds a service with the tag
\* "latest" next to a service that was updated
C2_Witness ==
    /\ pc = "done"
    /\ \E k \in 1..Len(compose_files) :
          /\ ~NamesRunner(compose_files[k])
          /\ disk0[k].kind = "services"
          /\ HasRecord(k)
          /\ \E j \in 1..Len(disk0[k].services) :
                Before(k, j).kind = "image" /\ HasLatestTag(Before(k, j).image)

\* C3: every record has a new version strictly greater than its old version
\* in the numeric-dotted order of the cleaned versions, and so has every
\* image field that is staged or written with another tag.
C3_StrictlyNewer ==
    /\ \A r \in 1..Len(Records) :
          StrictlyNewer(Records[r].new_version, Records[r].old_version)
    /\ pc \in {"service", "save"} =>
          \A j \in 1..Len(compose_data.services) :
              compose_data.services[j].image # Before(file_idx, j).image =>
                  StrictlyNewer(TagOf(compose_data.services[j].image),
                                TagOf(Before(file_idx, j).image))
    /\ \A k \in rewritten :
          \A j \in 1..Len(disk[k].services) :
              disk[k].services[j].image # Before(k, j).image =>
                  StrictlyNewer(TagOf(disk[k].services[j].image), TagOf(Before(k, j).image))

\* C4: no fault in a service or a manifest ends the run: the run never stops
\* while a manifest remains to be evaluated.
C4_FaultIsolation == ~(pc = "aborted" /\ file_idx <= Len(compose_files))

\* manifest k as the run should leave it: the image of every service with a
\* record is imageName:newVersion, and nothing else differs
ExpectedDoc(k) ==
    [disk0[k] EXCEPT !.services =
        [j \in 1..Len(disk0[k].services) |->
            IF RecordsOf(k, j) = {} THEN Before(k, j)
            ELSE LET r == Records[CHOOSE r \in RecordsOf(k, j) : TRUE]
                 IN  [Before(k, j) EXCEPT !.image = r.image \o <<":">> \o r.new_version]]]

\* C7 as stated: an evaluated manifest is rewritten if and only if it has a
\* record, and a rewritten manifest differs from what it was in the image
\* fields of the services with a record only.
C7_RewrittenIffRecord ==
    \A k \in 1..Len(compose_files) :
        Finished(k) =>
            /\ k \in rewritten <=> HasRecord(k)
            /\ k \in rewritten => disk[k] = ExpectedDoc(k)

\* C7 where no write fails, and what a failed write leaves behind: an
\* evaluated manifest is rewritten if and only if it has a record and
\* its write did not fail; a rewritten manifest differs from what it was in
\* the image fields of the services with a record only; a manifest without a
\* record is as it was.
C7_RewrittenIffRecordAndWritten ==
    \A k \in 1..Len(compose_files) :
        Finished(k) =>
            /\ k \in rewritten <=> (HasRecord(k) /\ k \notin write_failed)
            /\ k \in rewritten => disk[k] = ExpectedDoc(k)
            /\ ~HasRecord(k) => disk[k] = disk0[k] /\ k \notin write_failed

\* the run is over; of two evaluated manifests with services exactly one was
\* rewritten, and in it one of two services changed
C7_Witness ==
    /\ pc = "done"
    /\ Cardinality(rewritten) = 1
    /\ write_failed = {}
    /\ Cardinality({k \in 1..Len(compose_files) :
                       ~NamesRunner(compose_files[k]) /\ disk0[k].kind = "services"
                           /\ disk0[k].services # <<>>}) = 2
    /\ \E k \in rewritten :
          /\ Len(disk[k].services) = 2
          /\ Cardinality({j \in 1..2 : disk[k].services[j] # Before(k, j)}) = 1

\* the lines of the environment file with a key
LinesOf(key) == {k \in 1..Len(env_file) : env_file[k].key = key}

\* C8: the reporter does not end the run, and a run that found updates leaves
\* exactly one UPDATES_FOUND line, one UPDATE_DATE line and one
\* UPDATE_SUMMARY line.
C8_OneLineEach ==
    /\ ~(pc = "aborted" /\ file_idx > Len(compose_files) /\ all_updates # <<>>)
    /\ (pc = "done" /\ all_updates # <<>>) =>
          \A key \in {"UPDATES_FOUND", "UPDATE_DATE", "UPDATE_SUMMARY"} :
              Cardinality(LinesOf(key)) = 1

\* the manifest a record names
ManifestOf(record) == CHOOSE k \in 1..Len(compose_files) : compose_files[k] = record.file

\* the record's service, in the manifest on disk, has the record's new version
OnDisk(record) ==
    LET k == ManifestOf(record)
    IN  /\ disk[k].kind = "services"
        /\ \E j \in 1..Len(disk[k].services) :
              /\ disk[k].services[j].name = record.service
              /\ disk[k].services[j].image = record.image \o <<":">> \o record.new_version

\* C13: at the end of a run every record of the aggregated report belongs to
\* a manifest that was rewritten on disk with the record's new version; the
\* records of a manifest whose write failed are not reported.
C13_ReportedRecordsWritten ==
    pc \in {"report", "done"} =>
        \A r \in 1..Len(all_updates) :
            /\ ManifestOf(all_updates[r]) \in rewritten
            /\ ManifestOf(all_updates[r]) \notin write_failed
            /\ OnDisk(all_updates[r])

\* The records and rewrites of the manifests whose write did not fail are as
\* C13 states.
C13_OtherManifestsUnaffected ==
    pc \in {"report", "done"} =>
        \A r \in 1..Len(all_updates) :
            ManifestOf(all_updates[r]) \notin write_failed =>
                ManifestOf(all_updates[r]) \in rewritten /\ OnDisk(all_updates[r])


---------------------------------------------------------------------------
(* SpecClean: clean_version on the strings built from a few parts.         *)

CleanParts == {<<"r","e","l","e","a","s","e","-">>, <<"v">>, <<"-","a","l","p","i","n","e">>, <<"-","s","l","i","m">>, <<"1">>, <<".">>, <<"x">>}

InitClean ==
    /\ arg \in Concats(CleanParts, MaxCleanParts)
    /\ out1 = None /\ out2 = None /\ fpc = "start"
    /\ MainIdle /\ RateIdle

CleanOnce ==
    /\ fpc = "start"
    /\ out1' = clean_version(arg)
    /\ fpc' = "once"
    /\ UNCHANGED <<arg, out2, mainVars, rateVars>>

CleanTwice ==
    /\ fpc = "once"
    /\ out2' = clean_version(out1)
    /\ fpc' = "twice"
    /\ UNCHANGED <<arg, out1, mainVars, rateVars>>

NextClean == CleanOnce \/ CleanTwice

SpecClean == InitClean /\ [][NextClean]_vars

\* C10: cleaning a version string is idempotent for every input string:
\* clean_version(clean_version(x)) = clean_version(x), also for a string that
\* carries more than one leading prefix or more than one trailing suffix.
C10_CleanIdempotent == fpc = "twice" => out2 = out1

---------------------------------------------------------------------------
(* SpecSanitize: sanitize_for_github_env on texts built from a few parts:  *)
(* a letter, a space, a tab, a dangerous character, a control character, a *)
(* non-ASCII letter, and a word long enough to reach the length limit.     *)

LongWord == [k \in 1..(max_length - 2) |-> "a"]

SanitizeParts == {<<"a">>, <<" ">>, <<"\t">>, <<"$">>, <<"U+0001">>, <<"U+00E9">>, LongWord}

InitSanitize ==
    /\ arg \in Concats(SanitizeParts, MaxSanitizeParts)
    /\ out1 = None /\ out2 = None /\ fpc = "start"
    /\ MainIdle /\ RateIdle

SanitizeOnce ==
    /\ fpc = "start"
    /\ out1' = sanitize_for_github_env(arg)
    /\ fpc' = "once"
    /\ UNCHANGED <<arg, out2, mainVars, rateVars>>

SanitizeTwice ==
    /\ fpc = "once"
    /\ out2' = sanitize_for_github_env(out1)
    /\ fpc' = "twice"
    /\ UNCHANGED <<arg, out1, mainVars, rateVars>>

NextSanitize == SanitizeOnce \/ SanitizeTwice

SpecSanitize == InitSanitize /\ [][NextSanitize]_vars

\* C9: the output sanitizer is idempotent for every input text:
\* sanitize(sanitize(x)) = sanitize(x), also for a text over 200 characters
\* that is truncated and for a text mixing whitespace with non-printable or
\* non-ASCII characters.
C9_SanitizeIdempotent == fpc = "twice" => out2 = out1

---------------------------------------------------------------------------
(* SpecResolve: one call of get_latest_docker_tag, for an image of either  *)
(* registry variant and every response of at most MaxCandidates tags, and  *)
(* the decision check_service_for_updates takes on the resolved tag.       *)

ResolveImages ==
    {<<"r","e","d","i","s">>, <<"g","r","a","f","a","n","a","/","g","r","a","f","a","n","a">>, <<"l","s","c","r",".","i","o","/","l","i","n","u","x","s","e","r","v","e","r","/","d","u","p","l","i","c","a","t","i">>, <<"t","r","a","e","f","i","k">>,
     <<"g","h","c","r",".","i","o","/","i","m","a","g","e","g","e","n","i","u","s","/","i","m","m","i","c","h">>, <<"g","h","c","r",".","i","o","/","h","o","m","e","-","a","s","s","i","s","t","a","n","t","/","h","o","m","e","-","a","s","s","i","s","t","a","n","t">>}

\* the tags a service may have
ResolveCurrentTags == {<<"9",".","5",".","0">>, <<"v","9",".","5",".","0">>}

InitResolve ==
    /\ arg \in {[image_name |-> n, current_tag |-> c, response |-> r] :
                   n \in ResolveImages, c \in ResolveCurrentTags,
                   r \in Responses(CandidatePool, MaxCandidates)}
    /\ out1 = None /\ out2 = None /\ fpc = "start"
    /\ MainIdle /\ RateIdle

\* line 431
Resolve ==
    /\ fpc = "start"
    /\ out1' = get_latest_docker_tag(arg.image_name, arg.response)
    /\ fpc' = "done"
    /\ UNCHANGED <<arg, out2, mainVars, rateVars>>

\* lines 433-459: what check_service_for_updates makes of the resolved tag
Decide ==
    /\ fpc = "done"
    /\ out2' = IF IsUpdate(arg.current_tag, out1.tag) THEN <<"update">>
               ELSE IF out1.tag # None THEN <<"up to date">>
               ELSE <<"could not check">>
    /\ fpc' = "decided"
    /\ UNCHANGED <<arg, out1, mainVars, rateVars>>

NextResolve == Resolve \/ Decide

SpecResolve == InitResolve /\ [][NextResolve]_vars

\* the candidates of a response that survive the pattern filtering
Survivors(image_name, tags) ==
    LET path == Remove(Remove(image_name, <<"g","h","c","r",".","i","o","/">>), <<"l","s","c","r",".","i","o","/">>)
    IN  ValidTags(get_image_key(path), tags)

\* the tag is one of the survivors and no survivor is strictly greater
IsMaximumOf(tag, survivors) ==
    /\ \E k \in 1..Len(survivors) : survivors[k] = tag
    /\ \A k \in 1..Len(survivors) : ~StrictlyNewer(survivors[k], tag)

ResolvedMaximum ==
    LET survivors == Survivors(arg.image_name, arg.response.tags)
    IN  (fpc = "done" /\ arg.response.status = "200" /\ survivors # <<>>)
            => IsMaximumOf(out1.tag, survivors)

\* C5: for both registry variants and every order in which the registry
\* returns its tags, the tag resolved for an image is the maximum, under the
\* numeric-dotted order, of the candidates that survive pattern filtering,
\* not the first surviving candidate returned.
C5_ResolvesMaximum == ResolvedMaximum

\* The Docker-Hub-style provider alone resolves the maximum.
DockerHubResolvesMaximum == RegistryOf(arg.image_name) = "dockerhub" => ResolvedMaximum

\* the tag matches the pattern registered for the image
MatchesRegistered(image_name, tag) ==
    LET path == Remove(Remove(image_name, <<"g","h","c","r",".","i","o","/">>), <<"l","s","c","r",".","i","o","/">>)
    IN  \E p \in Get(VERSION_PATTERNS, get_image_key(path)) : MatchPat(p, tag)

\* C11: pattern-specific and generic matching are never combined.  When a
\* returned candidate matches the pattern registered for the image, the
\* resolved tag matches that pattern; otherwise, when a candidate is bare
\* dotted-numeric, the resolved tag is bare dotted-numeric; otherwise the
\* resolved tag is v-prefixed dotted-numeric.
C11_NeverCombined ==
    LET tags == arg.response.tags
        some_registered == \E k \in 1..Len(tags) : MatchesRegistered(arg.image_name, tags[k])
        some_numeric    == \E k \in 1..Len(tags) : MatchPat(GenericNumeric, tags[k])
    IN  (fpc = "done" /\ arg.response.status = "200" /\ out1.tag # None) =>
            IF some_registered THEN MatchesRegistered(arg.image_name, out1.tag)
            ELSE IF some_numeric THEN MatchPat(GenericNumeric, out1.tag)
            ELSE MatchPat(GenericVPrefixed, out1.tag)

\* C11 for the Docker-Hub-style provider when a candidate matches the
\* registered pattern
C11_DockerHubPatternFirst ==
    LET tags == arg.response.tags
    IN  (/\ fpc = "done" /\ arg.response.status = "200" /\ out1.tag # None
         /\ RegistryOf(arg.image_name) = "dockerhub"
         /\ \E k \in 1..Len(tags) : MatchesRegistered(arg.image_name, tags[k]))
            => MatchesRegistered(arg.image_name, out1.tag)

\* the backoff of each registry variant, in seconds
BackoffOf(image_name) == IF RegistryOf(image_name) = "ghcr" THEN 60 ELSE 30

\* C12: a provider that receives 429 sleeps once, 30 seconds (Docker Hub) or
\* 60 seconds (GHCR), sends no further request and returns no candidate; on
\* any other status than 200 and on a transport failure it returns no
\* candidate without sleeping; the service is then reported as not
\* checkable and no update is decided.
C12_BackoffThenNoCandidates ==
    (fpc \in {"done", "decided"} /\ arg.response.status # "200") =>
        /\ out1.tag = None
        /\ out1.requests = 1
        /\ out1.slept = IF arg.response.status = "429" THEN BackoffOf(arg.image_name) ELSE 0
        /\ fpc = "decided" => out2 = <<"could not check">>

\* a GHCR image was answered 429: the provider slept and the service was
\* reported as not checkable
C12_Witness ==
    /\ fpc = "decided"
    /\ arg.response.status = "429"
    /\ RegistryOf(arg.image_name) = "ghcr"
    /\ out1.slept = 60
    /\ out2 = <<"could not check">>

---------------------------------------------------------------------------
(* SpecRate: the rate limiter called for any class in any order while the  *)
(* clock advances.                                                         *)

\* the classes the providers pass, the class "default", and one the table
\* does not name
RegistryClasses == {"dockerhub", "ghcr", "github_api", "default", "other"}

InitRate ==
    /\ now = ClockStart /\ last_request = <<>> /\ last_wait = NoWait
    /\ MainIdle /\ FnIdle

\* an outbound call of a class: the provider waits, then sends its request
OutboundCall ==
    /\ \E c \in RegistryClasses : wait_if_needed(c)
    /\ UNCHANGED <<mainVars, fnVars>>

\* time passes while the program does anything else
Tick ==
    /\ now < MaxClock
    /\ now' = now + 1
    /\ UNCHANGED <<last_request, last_wait, mainVars, fnVars>>

NextRate == OutboundCall \/ Tick

SpecRate == InitRate /\ [][NextRate]_vars

\* the minimum spacing of each class, in half seconds: 2.0 s, 3.0 s, 1.0 s,
\* and 0.5 s for "default" and for any other class
MinimumSpacing(c) ==
    CASE c = "dockerhub" -> 4
      [] c = "ghcr" -> 6
      [] c = "github_api" -> 2
      [] OTHER -> 1

Stamped(c) == c \in DOMAIN last_request' /\ (c \in DOMAIN last_request => last_request'[c] # last_request[c])

\* C6: two consecutive outbound calls of one class are at least the class's
\* minimum spacing apart: a step that records a timestamp for a class records
\* one at least the spacing after the class's previous timestamp, records the
\* clock read after the wait, and changes no other class's timestamp.
C6_MinimumSpacing ==
    [][\A c \in RegistryClasses :
          Stamped(c) =>
              /\ c \in DOMAIN last_request => last_request'[c] - last_request[c] >= MinimumSpacing(c)
              /\ last_request'[c] = now'
              /\ \A d \in RegistryClasses \ {c} :
                    /\ d \in DOMAIN last_request' <=> d \in DOMAIN last_request
                    /\ d \in DOMAIN last_request => last_request'[d] = last_request[d]]_vars

\* a second call of the ghcr class that had to sleep
C6_Witness == last_wait.class = "ghcr" /\ last_wait.slept > 0

=============================================================================
